---- MODULE Spec2Model ----
(***************************************************************************)
(* Model of the Cleep "parameters" application (backend/parameters.py):    *)
(* the minute-aligned time task, the NTP synchronization task launched at  *)
(* start-up when the clock is older than the saved timestamp, the sun      *)
(* times and the position command.                                         *)
(*                                                                         *)
(* Time is the integer Unix timestamp int(time.time()).  Three threads run *)
(* handlers: the time task's thread ("sched"), the synchronization task's  *)
(* thread and the module thread that serves commands ("cmd").              *)
(***************************************************************************)
EXTENDS Integers, Sequences, FiniteSets, TLC

\* ------------------------------------------------------------- bounds
\* start-up happens at a clock value in 0..MaxStart
MaxStart == 2
\* start-up happens at a clock value in 0..MaxAlignStart when the alignment
\* of the time task is checked
MaxAlignStart == 119
\* the clock never passes MaxTime
MaxTime == 300
\* number of set_position commands served in one run
MaxCmds == 1

\* ------------------------------------------------- program constants
NTP_SYNC_INTERVAL == 60
TIME_TASK_INTERVAL == 60
REFRESH_HOUR == 0
REFRESH_MINUTE == 5
DEFAULT_TIMESTAMP == 0
SYNC_TIMEOUT == 60

\* self.sunrise / self.sunset / self.timezone / a task handle set to None
None == <<>>

\* coordinates, in 1e-4 degree
DEFAULT_POSITION == [latitude |-> 522040, longitude |-> 1208]
ZeroPosition == [latitude |-> 0, longitude |-> 0]
NorthPosition == [latitude |-> 696492, longitude |-> 189553]
Positions == {ZeroPosition, DEFAULT_POSITION, NorthPosition}

VARIABLES
    now,            \* int(time.time())
    phase,          \* life cycle of the module thread
    config,         \* the persisted configuration (parameters.conf)
    timezone,       \* self.timezone
    sunrise,        \* self.sunrise: None or <<hour, minute>>
    sunset,         \* self.sunset: None or <<hour, minute>>
    suns,           \* self.suns: the sunrise and sunset timestamps
    sync_time_task, \* self.sync_time_task: None or the handle of its Task
    time_task,      \* self.time_task: None or the handle of its Task
    task,           \* the two Task objects: state and next deadline
    timer,          \* the one-shot Timer of _on_start
    pc,             \* per thread: position in its handler
    sample,         \* per tick thread: now_formatted['timestamp']
    sent,           \* events delivered so far, per event name
    set_sun_calls,  \* number of calls of set_sun so far
    recovery,       \* what happened to the synchronization task so far
    ncmd,           \* number of set_position commands served so far
    raised,         \* the exception of the last set_position command, "" if none
    call,           \* the types of the arguments of the last set_position command
    now_event,      \* per tick thread: params of the time.now event it sent
    country_event,  \* params of the last parameters.country.update event sent
    in_recovery,    \* per tick thread: self.sync_time_task was set at the sample
    sun_entry       \* per thread: the sun times when its set_sun call began

vars == <<now, phase, config, timezone, sunrise, sunset, suns, sync_time_task,
          time_task, task, timer, pc, sample, sent, set_sun_calls, recovery, ncmd,
          now_event, country_event, in_recovery, sun_entry, raised, call>>

\* ------------------------------------------------------------ helpers
Min(S) == CHOOSE x \in S : \A y \in S : x <= y

\* datetime.fromtimestamp(now): hour and minute of a timestamp
Hour(ts) == (ts \div 3600) % 24
Minute(ts) == (ts \div 60) % 60

\* __format_time: the fields of the sample the handlers read
FormatTime(ts) == [timestamp |-> ts, hour |-> Hour(ts), minute |-> Minute(ts)]

\* self.timezone.localize(...) needs a tzinfo object
CanLocalize(tz) == tz # None /\ tz[1] = "tzinfo"

\* Sun.sunrise() / Sun.sunset(): the library's answer for a position
SunriseAt(pos) == IF pos = NorthPosition THEN <<0, 1>> ELSE <<0, 2>>
SunsetAt(pos) == IF pos = NorthPosition THEN <<0, 4>> ELSE <<0, 3>>

\* int(dt.strftime('%s')) of today's sunrise or sunset
Stamp(ts, hm) == (ts \div 86400) * 86400 + hm[1] * 3600 + hm[2] * 60

\* TimezoneFinder.timezone_at / closest_timezone_at: "" when none is found
TimezoneAt(pos) ==
    IF pos = DEFAULT_POSITION THEN "Europe/London"
    ELSE IF pos = NorthPosition THEN "Europe/Oslo"
    ELSE ""

\* reverse_geocode.search: the alpha2 code found for a position
CountryAt(pos) ==
    IF pos = DEFAULT_POSITION THEN <<"GB">>
    ELSE IF pos = NorthPosition THEN <<"NO">>
    ELSE <<"GH">>

\* the 'timestamp' field a previous run may have left
SavedTimestamps == {DEFAULT_TIMESTAMP, MaxStart \div 2, MaxTime + TIME_TASK_INTERVAL}

Handle == <<"Task">>
NoTask == [state |-> "none", due |-> 0]

\* ------------------------------------------------------------ set_sun
\* set_sun without the test of the position
SetSun_AnyPosition(pos, ts, old) ==
    [sunrise |-> SunriseAt(pos), sunset |-> SunsetAt(pos),
     suns |-> [sunrise |-> Stamp(ts, SunriseAt(pos)),
               sunset |-> Stamp(ts, SunsetAt(pos))]]

\* set_sun: sunrise, sunset and suns after a recompute for position pos at ts
SetSun(pos, ts, old) ==
    IF pos.latitude # 0 /\ pos.longitude # 0
    THEN [sunrise |-> SunriseAt(pos), sunset |-> SunsetAt(pos),
          suns |-> [sunrise |-> Stamp(ts, SunriseAt(pos)),
                    sunset |-> Stamp(ts, SunsetAt(pos))]]
    ELSE [sunrise |-> None, sunset |-> None, suns |-> old]

\* --------------------------------------------------------------- Init
\* the state after __init__: the clock is one of starts, and parameters.conf
\* holds a position of positions and a country of countries
InitFrom(starts, positions, countries) ==
    /\ now \in starts
    /\ phase = "constructed"
    /\ \E ts \in SavedTimestamps, pos \in positions, notz \in BOOLEAN,
          country \in countries :
          config = [timestamp |-> ts,
                    position |-> pos,
                    timezone |-> IF notz THEN "" ELSE "Europe/London",
                    country |-> country]
    /\ timezone = None
    /\ sunrise = None
    /\ sunset = None
    /\ suns = [sunrise |-> 0, sunset |-> 0]
    /\ sync_time_task = None
    /\ time_task = None
    /\ task = [sync |-> NoTask, time |-> NoTask]
    /\ timer = NoTask
    /\ pc = [sched |-> "idle", sync |-> "idle", cmd |-> "idle"]
    /\ sample = [sched |-> 0, cmd |-> 0]
    /\ sent = [sunrise |-> 0, sunset |-> 0]
    /\ set_sun_calls = 0
    /\ recovery = [created |-> 0, stopped |-> 0, missed |-> FALSE,
                   ran |-> FALSE, wrote |-> FALSE]
    /\ ncmd = 0
    /\ raised = ""
    /\ call = None
    /\ now_event = [sched |-> None, cmd |-> None]
    /\ country_event = None
    /\ in_recovery = [sched |-> FALSE, cmd |-> FALSE]
    /\ sun_entry = [sched |-> None, cmd |-> None]

Init == InitFrom(0..MaxStart, {DEFAULT_POSITION, ZeroPosition}, {<<"GB">>})

\* ------------------------------------------------- configuration steps
\* what the environment of a set_position command may refuse: the save of a
\* configuration field, the zoneinfo file of the timezone, the country search
Failures == {"none", "position", "timezone", "zoneinfo", "geocode", "country"}

\* set_timezone: the configuration after the call and whether it raised;
\* saved: the 'timezone' field could be written, zoneinfo: the system file exists
SetTimezone(cfg, saved, zoneinfo) ==
    IF cfg.position.latitude = 0 /\ cfg.position.longitude = 0
    THEN [config |-> cfg, raised |-> FALSE]
    ELSE IF TimezoneAt(cfg.position) = ""
    THEN [config |-> cfg, raised |-> FALSE]
    ELSE IF ~saved
    THEN [config |-> cfg, raised |-> TRUE]
    ELSE [config |-> [cfg EXCEPT !.timezone = TimezoneAt(cfg.position)],
          raised |-> ~zoneinfo]

\* set_country: the configuration after the call and whether it raised;
\* found: the country search returned, saved: the 'country' field could be
\* written; event: the params of the parameters.country.update event sent
SetCountry(cfg, found, saved) ==
    IF cfg.position.latitude = 0 /\ cfg.position.longitude = 0
    THEN [config |-> cfg, raised |-> FALSE, event |-> None]
    ELSE IF ~found
    THEN [config |-> cfg, raised |-> FALSE, event |-> None]
    ELSE IF ~saved
    THEN [config |-> cfg, raised |-> TRUE, event |-> None]
    ELSE [config |-> [cfg EXCEPT !.country = CountryAt(cfg.position)],
          raised |-> FALSE, event |-> CountryAt(cfg.position)]

\* _configure: country, timezone, sun times
Configure ==
    /\ phase = "constructed"
    /\ \E found \in BOOLEAN, saved \in BOOLEAN :
        LET c == IF config.country = None
                 THEN SetCountry(config, found, saved)
                 ELSE [config |-> config, raised |-> FALSE, event |-> None]
            s == SetSun(c.config.position, now, suns)
        IN  IF c.raised
            THEN /\ phase' = "failed"
                 /\ UNCHANGED <<config, timezone, sunrise, sunset, suns, set_sun_calls,
                                country_event>>
            ELSE /\ phase' = "configured"
                 /\ country_event' = IF c.event # None THEN c.event ELSE country_event
                 /\ config' = c.config
                 /\ timezone' = IF config.timezone # ""
                                THEN <<"tzinfo", config.timezone>>
                                ELSE <<"str", "Etc/UTC">>
                 /\ sunrise' = s.sunrise
                 /\ sunset' = s.sunset
                 /\ suns' = s.suns
                 /\ set_sun_calls' = set_sun_calls + 1
    /\ UNCHANGED <<now, sync_time_task, time_task, task, timer, pc, sample, sent,
                   recovery, ncmd, now_event, in_recovery, sun_entry, raised, call>>

\* ------------------------------------------------------------ start-up
\* the sanity check with <= for <
NeedsSync_OrEqual(t, saved) == (t - saved) <= 0

\* _on_start: the sanity check of the clock against the saved timestamp
NeedsSync(t, saved) == (t - saved) < 0

\* the delay without the case of a start on a minute boundary
AlignDelay_NoWrap(t) == 60 - (t % 60)

\* _on_start: the delay of the one-shot Timer that starts the time task
AlignDelay(t) ==
    LET seconds == 60 - (t % 60)
    IN  IF seconds = 60 THEN 0 ELSE seconds

\* _on_start
OnStart ==
    /\ phase = "configured"
    /\ phase' = "started"
    /\ sync_time_task' = IF NeedsSync(now, config.timestamp) THEN Handle ELSE None
    /\ time_task' = Handle
    /\ task' = [sync |-> IF NeedsSync(now, config.timestamp)
                         THEN [state |-> "waiting", due |-> now]
                         ELSE task.sync,
                time |-> [state |-> "created", due |-> 0]]
    /\ recovery' = [recovery EXCEPT !.created =
                        @ + (IF NeedsSync(now, config.timestamp) THEN 1 ELSE 0)]
    /\ timer' = [state |-> "pending", due |-> now + AlignDelay(now)]
    /\ UNCHANGED <<now, config, timezone, sunrise, sunset, suns, pc, sample, sent,
                   set_sun_calls, ncmd, now_event, country_event, in_recovery, sun_entry, raised, call>>

\* the Timer of _on_start elapses and calls self.time_task.start()
TimerFire ==
    /\ timer.state = "pending"
    /\ timer.due <= now
    /\ timer' = [state |-> "done", due |-> 0]
    /\ task' = [task EXCEPT !.time = [state |-> "waiting", due |-> now]]
    /\ UNCHANGED <<now, phase, config, timezone, sunrise, sunset, suns, sync_time_task,
                   time_task, pc, sample, sent, set_sun_calls, recovery, ncmd,
                   now_event, country_event, in_recovery, sun_entry, raised, call>>

\* _on_stop
OnStop ==
    /\ phase = "started"
    /\ phase' = "stopped"
    /\ task' = IF time_task # None
               THEN [task EXCEPT !.time = [state |-> "stopped", due |-> 0]]
               ELSE task
    /\ UNCHANGED <<now, config, timezone, sunrise, sunset, suns, sync_time_task,
                   time_task, timer, pc, sample, sent, set_sun_calls, recovery, ncmd,
                   now_event, country_event, in_recovery, sun_entry, raised, call>>

\* -------------------------------------------------------------- tasks
\* a Task object when its callback returns: the next run is scheduled one
\* interval later unless stop() was called meanwhile
AfterRun(t, interval) ==
    IF t.state = "firing" THEN [state |-> "waiting", due |-> now + interval] ELSE t

\* _time_task: the sunrise (or sunset) test of a sample against self.sunrise
EdgeDue(s, edge) == edge # None /\ s.hour = edge[1] /\ s.minute = edge[2]

\* the test for the daily update with <= for == on the minute
IsRefresh_UpToFive(s) == s.hour = REFRESH_HOUR /\ s.minute <= REFRESH_MINUTE

\* _time_task: the test for the daily update of the sun times
IsRefresh(s) == s.hour = REFRESH_HOUR /\ s.minute = REFRESH_MINUTE

\* _time_task: the 'timestamp' field after the handler's last statement
Checkpoint(th) ==
    IF sync_time_task = None THEN sample[th] ELSE config.timestamp

\* _time_task: the params of the parameters.time.now event
NowEventParams(s, sn) ==
    [timestamp |-> s.timestamp, hour |-> s.hour, minute |-> s.minute,
     sunrise |-> sn.sunrise, sunset |-> sn.sunset]

\* _time_task on thread th, up to the update of the sun times
TimeTaskBegin(th) ==
    IF ~CanLocalize(timezone)
    THEN \* __format_time raises: the handler ends here
         /\ pc' = [pc EXCEPT ![th] = "raised"]
         /\ raised' = IF th = "cmd" THEN "AttributeError" ELSE raised
         /\ UNCHANGED <<sample, sent, sunrise, sunset, suns, set_sun_calls, now_event,
                        in_recovery>>
    ELSE LET s == FormatTime(now)
             r == SetSun(config.position, now, suns)
         IN  /\ pc' = [pc EXCEPT ![th] = "save"]
             /\ sample' = [sample EXCEPT ![th] = s.timestamp]
             /\ in_recovery' = [in_recovery EXCEPT ![th] = sync_time_task # None]
             /\ now_event' = [now_event EXCEPT ![th] = NowEventParams(s, suns)]
             /\ raised' = raised
             /\ sent' = [sunrise |-> sent.sunrise + (IF EdgeDue(s, sunrise) THEN 1 ELSE 0),
                         sunset |-> sent.sunset + (IF EdgeDue(s, sunset) THEN 1 ELSE 0)]
             /\ IF IsRefresh(s)
                THEN /\ sunrise' = r.sunrise
                     /\ sunset' = r.sunset
                     /\ suns' = r.suns
                     /\ set_sun_calls' = set_sun_calls + 1
                ELSE UNCHANGED <<sunrise, sunset, suns, set_sun_calls>>

\* the time task fires: _time_task starts on the task's thread
TimeTaskFire ==
    /\ task.time.state = "waiting"
    /\ task.time.due <= now
    /\ pc.sched = "idle"
    /\ task' = [task EXCEPT !.time = [state |-> "firing", due |-> 0]]
    /\ TimeTaskBegin("sched")
    /\ UNCHANGED <<now, phase, config, timezone, sync_time_task, time_task, timer,
                   recovery, ncmd, country_event, sun_entry, call>>

\* _time_task: the save of the timestamp, and the return of the handler
\* (at once when __format_time raised)
TimeTaskEnd(th) ==
    /\ pc[th] \in {"save", "raised"}
    /\ config' = IF pc[th] = "save"
                 THEN [config EXCEPT !.timestamp = Checkpoint(th)]
                 ELSE config
    /\ pc' = [pc EXCEPT ![th] = "idle"]
    /\ sample' = [sample EXCEPT ![th] = 0]
    /\ task' = IF th = "sched"
               THEN [task EXCEPT !.time = AfterRun(task.time, TIME_TASK_INTERVAL)]
               ELSE task
    /\ recovery' = IF recovery.stopped > 0
                   THEN [recovery EXCEPT
                            !.ran = TRUE,
                            !.wrote = @ \/ (pc[th] = "save" /\ sync_time_task = None)]
                   ELSE recovery
    /\ in_recovery' = [in_recovery EXCEPT ![th] = FALSE]
    /\ now_event' = [now_event EXCEPT ![th] = None]
    /\ UNCHANGED <<now, phase, timezone, sunrise, sunset, suns, sync_time_task,
                   time_task, timer, sent, set_sun_calls, ncmd, country_event,
                   sun_entry, raised, call>>

\* the synchronization task fires: _sync_time_task calls sync_time(), which
\* blocks for at most SYNC_TIMEOUT seconds and will return ok
SyncFire(ok) ==
    /\ task.sync.state = "waiting"
    /\ task.sync.due <= now
    /\ pc.sync = "idle"
    /\ pc' = [pc EXCEPT !.sync = IF ok THEN "sync_ok" ELSE "sync_fail"]
    /\ task' = [task EXCEPT !.sync = [state |-> "firing", due |-> now + SYNC_TIMEOUT]]
    /\ UNCHANGED <<now, phase, config, timezone, sunrise, sunset, suns, sync_time_task,
                   time_task, timer, sample, sent, set_sun_calls, recovery, ncmd,
                   now_event, country_event, in_recovery, sun_entry, raised, call>>

\* _sync_time_task stopping the Task and keeping its handle
SyncDone_KeepHandle(ok) ==
    IF ok /\ task.sync.state # "stopped"
    THEN [handle |-> sync_time_task, task |-> [state |-> "stopped", due |-> 0],
          stops |-> 1, missed |-> FALSE]
    ELSE [handle |-> sync_time_task, task |-> task.sync, stops |-> 0, missed |-> FALSE]

\* _sync_time_task releasing the handle of a Task it did not stop
SyncDone_NoStop(ok) ==
    IF ~ok
    THEN [handle |-> sync_time_task, task |-> task.sync, stops |-> 0, missed |-> FALSE]
    ELSE IF sync_time_task = None
    THEN [handle |-> None, task |-> task.sync, stops |-> 0, missed |-> TRUE]
    ELSE [handle |-> None, task |-> task.sync, stops |-> 0, missed |-> FALSE]

\* _sync_time_task giving up after a sync_time() that returned false
SyncDone_StopOnFailure(ok) ==
    IF sync_time_task = None
    THEN [handle |-> None, task |-> task.sync, stops |-> 0, missed |-> ok]
    ELSE [handle |-> None, task |-> [state |-> "stopped", due |-> 0], stops |-> 1,
          missed |-> FALSE]

\* _sync_time_task after sync_time() returned ok: the handle, the Task, the
\* number of stop() calls, and whether stop() was called on a released handle
SyncDone(ok) ==
    IF ~ok
    THEN [handle |-> sync_time_task, task |-> task.sync, stops |-> 0, missed |-> FALSE]
    ELSE IF sync_time_task = None
    THEN [handle |-> None, task |-> task.sync, stops |-> 0, missed |-> TRUE]
    ELSE [handle |-> None, task |-> [state |-> "stopped", due |-> 0], stops |-> 1,
          missed |-> FALSE]

\* sync_time() returns and _sync_time_task ends
SyncEnd ==
    /\ pc.sync \in {"sync_ok", "sync_fail"}
    /\ pc' = [pc EXCEPT !.sync = "idle"]
    /\ LET d == SyncDone(pc.sync = "sync_ok")
       IN  /\ sync_time_task' = d.handle
           /\ task' = [task EXCEPT !.sync = AfterRun(d.task, NTP_SYNC_INTERVAL)]
           /\ recovery' = [recovery EXCEPT !.stopped = @ + d.stops,
                                           !.missed = @ \/ d.missed]
    /\ UNCHANGED <<now, phase, config, timezone, sunrise, sunset, suns, time_task,
                   timer, sample, sent, set_sun_calls, ncmd,
                   now_event, country_event, in_recovery, sun_entry, raised, call>>

\* ------------------------------------------------------- set_position
FloatArg(x) == [kind |-> "float", v |-> x]
NoneArg == [kind |-> "None", v |-> 0]
IntArg == [kind |-> "int", v |-> 1]

\* the arguments of the set_position commands
Arguments ==
    {<<FloatArg(p.latitude), FloatArg(p.longitude)>> : p \in Positions}
        \cup {<<NoneArg, FloatArg(0)>>, <<IntArg, FloatArg(0)>>,
              <<FloatArg(0), NoneArg>>, <<FloatArg(0), IntArg>>}

\* the checks of the arguments without the checks of the type
CheckArguments_NoType(lat, lon) ==
    IF lat.kind = "None" \/ lon.kind = "None" THEN "MissingParameter" ELSE ""

\* set_position: the exception of the checks of the arguments, "" when they pass
CheckArguments(lat, lon) ==
    IF lat.kind = "None" THEN "MissingParameter"
    ELSE IF lat.kind # "float" THEN "InvalidParameter"
    ELSE IF lon.kind = "None" THEN "MissingParameter"
    ELSE IF lon.kind # "float" THEN "InvalidParameter"
    ELSE ""

\* set_position up to set_country: checks, save of the position, timezone, country
SetPosition(lat, lon, fail) ==
    /\ phase = "started"
    /\ pc.cmd = "idle"
    /\ ncmd < MaxCmds
    /\ ncmd' = ncmd + 1
    /\ call' = [latitude |-> lat.kind, longitude |-> lon.kind]
    /\ IF CheckArguments(lat, lon) # "" \/ fail = "position"
       THEN \* MissingParameter, InvalidParameter or CommandError
            /\ raised' = IF CheckArguments(lat, lon) # ""
                          THEN CheckArguments(lat, lon)
                          ELSE "CommandError"
            /\ UNCHANGED <<config, pc, country_event>>
       ELSE LET c1 == [config EXCEPT !.position = [latitude |-> lat.v, longitude |-> lon.v]]
                t == SetTimezone(c1, fail # "timezone", fail # "zoneinfo")
                c == SetCountry(t.config, fail # "geocode", fail # "country")
            IN  IF t.raised
                THEN /\ config' = t.config
                     /\ pc' = pc
                     /\ raised' = "CommandError"
                     /\ UNCHANGED country_event
                ELSE /\ config' = c.config
                     /\ pc' = [pc EXCEPT !.cmd = IF c.raised THEN "idle" ELSE "sun"]
                     /\ raised' = IF c.raised THEN "CommandError" ELSE ""
                     /\ country_event' = IF c.event # None THEN c.event ELSE country_event
    /\ UNCHANGED <<now, phase, timezone, sunrise, sunset, suns, sync_time_task,
                   time_task, task, timer, sample, sent, set_sun_calls, recovery,
                   now_event, in_recovery, sun_entry>>

\* set_position: the call of set_sun
SetPositionSun ==
    /\ pc.cmd = "sun"
    /\ pc' = [pc EXCEPT !.cmd = "tick"]
    /\ LET s == SetSun(config.position, now, suns)
       IN  /\ sunrise' = s.sunrise
           /\ sunset' = s.sunset
           /\ suns' = s.suns
    /\ set_sun_calls' = set_sun_calls + 1
    /\ UNCHANGED <<now, phase, config, timezone, sync_time_task, time_task, task,
                   timer, sample, sent, recovery, ncmd,
                   now_event, country_event, in_recovery, sun_entry, raised, call>>

\* set_position: the call of _time_task on the module thread
SetPositionTick ==
    /\ pc.cmd = "tick"
    /\ TimeTaskBegin("cmd")
    /\ UNCHANGED <<now, phase, config, timezone, sync_time_task, time_task, task,
                   timer, recovery, ncmd, country_event, sun_entry, call>>

\* ------------------------------------------- set_sun and _time_task in steps
\* which call of self.sun raises in a run of set_sun
SunFaults == {"none", "sunset", "sunrise"}

\* the position in a thread's handler after its set_sun call returned
AfterSetSun(at) == IF at \in {"sun", "sun_lookup"} THEN "tick" ELSE "save"

\* set_sun on thread th, up to the test of the position: the position is
\* read, sunset and sunrise are set to None
SetSunClear(th) ==
    /\ pc[th] \in {"sun", "refresh"}
    /\ sunset' = None
    /\ sunrise' = None
    /\ set_sun_calls' = set_sun_calls + 1
    /\ IF config.position.latitude # 0 /\ config.position.longitude # 0
       THEN /\ pc' = [pc EXCEPT ![th] = IF pc[th] = "sun" THEN "sun_lookup"
                                        ELSE "refresh_lookup"]
            /\ sun_entry' = [sun_entry EXCEPT ![th] =
                                [position |-> config.position, sunrise |-> sunrise,
                                 sunset |-> sunset, suns |-> suns]]
       ELSE /\ pc' = [pc EXCEPT ![th] = AfterSetSun(pc[th])]
            /\ sun_entry' = sun_entry
    /\ UNCHANGED <<now, phase, config, timezone, suns, sync_time_task, time_task, task,
                   timer, sample, sent, recovery, ncmd, now_event, country_event,
                   in_recovery, raised, call>>

\* set_sun on thread th, from self.sun.set_position to its end: sunset, then
\* sunrise, then the timestamps; fault names the call of self.sun that raises
SetSunLookup(th, fault) ==
    /\ pc[th] \in {"sun_lookup", "refresh_lookup"}
    /\ LET pos == sun_entry[th].position
       IN  /\ sunset' = IF fault = "sunset" THEN sunset ELSE SunsetAt(pos)
           /\ sunrise' = IF fault = "none" THEN SunriseAt(pos) ELSE sunrise
           /\ suns' = IF fault = "none"
                      THEN [sunrise |-> Stamp(now, SunriseAt(pos)),
                            sunset |-> Stamp(now, SunsetAt(pos))]
                      ELSE suns
    /\ pc' = [pc EXCEPT ![th] = IF fault = "none" THEN AfterSetSun(pc[th])
                                ELSE IF pc[th] = "sun_lookup" THEN "idle"
                                ELSE "raised"]
    /\ raised' = IF fault # "none" /\ th = "cmd" THEN "Exception" ELSE raised
    /\ sun_entry' = [sun_entry EXCEPT ![th] = None]
    /\ UNCHANGED <<now, phase, config, timezone, sync_time_task, time_task, task,
                   timer, sample, sent, set_sun_calls, recovery, ncmd, now_event,
                   country_event, in_recovery, call>>

\* _time_task on thread th, up to the test for the update of the sun times
TimeTaskHead(th) ==
    IF ~CanLocalize(timezone)
    THEN \* __format_time raises: the handler ends here
         /\ pc' = [pc EXCEPT ![th] = "raised"]
         /\ raised' = IF th = "cmd" THEN "AttributeError" ELSE raised
         /\ UNCHANGED <<sample, sent, now_event, in_recovery>>
    ELSE LET s == FormatTime(now)
         IN  /\ pc' = [pc EXCEPT ![th] = IF IsRefresh(s) THEN "refresh" ELSE "save"]
             /\ sample' = [sample EXCEPT ![th] = s.timestamp]
             /\ in_recovery' = [in_recovery EXCEPT ![th] = sync_time_task # None]
             /\ now_event' = [now_event EXCEPT ![th] = NowEventParams(s, suns)]
             /\ sent' = [sunrise |-> sent.sunrise + (IF EdgeDue(s, sunrise) THEN 1 ELSE 0),
                         sunset |-> sent.sunset + (IF EdgeDue(s, sunset) THEN 1 ELSE 0)]
             /\ raised' = raised

\* the time task fires: _time_task starts on the task's thread
TimeTaskFireSteps ==
    /\ task.time.state = "waiting"
    /\ task.time.due <= now
    /\ pc.sched = "idle"
    /\ task' = [task EXCEPT !.time = [state |-> "firing", due |-> 0]]
    /\ TimeTaskHead("sched")
    /\ UNCHANGED <<now, phase, config, timezone, sunrise, sunset, suns, sync_time_task,
                   time_task, timer, set_sun_calls, recovery, ncmd, country_event,
                   sun_entry, call>>

\* set_position: the call of _time_task on the module thread
SetPositionTickSteps ==
    /\ pc.cmd = "tick"
    /\ TimeTaskHead("cmd")
    /\ UNCHANGED <<now, phase, config, timezone, sunrise, sunset, suns, sync_time_task,
                   time_task, task, timer, set_sun_calls, recovery, ncmd,
                   country_event, sun_entry, call>>

\* --------------------------------------------------------------- time
\* the deadlines of the armed timers, and the next minute
Deadlines ==
    {timer.due : x \in {y \in {1} : timer.state = "pending"}}
        \cup {task[n].due : n \in {m \in {"sync", "time"} :
                                      task[m].state \in {"waiting", "firing"}}}
        \cup {(now \div 60 + 1) * 60}

\* the clock advances to the next deadline; the tick and command handlers
\* take no time, sync_time() may block
Elapse ==
    /\ phase \in {"started", "stopped"}
    /\ pc.sched = "idle"
    /\ pc.cmd = "idle"
    /\ \A d \in Deadlines : d > now
    /\ Min(Deadlines) <= MaxTime
    /\ now' = Min(Deadlines)
    /\ UNCHANGED <<phase, config, timezone, sunrise, sunset, suns, sync_time_task,
                   time_task, task, timer, pc, sample, sent, set_sun_calls, recovery,
                   ncmd, now_event, country_event, in_recovery, sun_entry, raised, call>>

\* ---------------------------------------------------------------- spec
\* the steps of the tasks and of the module thread's start-up
Run ==
    \/ Configure
    \/ OnStart
    \/ TimerFire
    \/ TimeTaskFire
    \/ TimeTaskEnd("sched")
    \/ \E ok \in BOOLEAN : SyncFire(ok)
    \/ SyncEnd
    \/ Elapse

Next ==
    \/ Run
    \/ OnStop
    \/ \E a \in Arguments, fail \in Failures : SetPosition(a[1], a[2], fail)
    \/ SetPositionSun
    \/ SetPositionTick
    \/ TimeTaskEnd("cmd")

Spec == Init /\ [][Next]_vars

\* start-up at every second of two minutes, with or without a saved country,
\* with no command and no shutdown
InitAlign == InitFrom(0..MaxAlignStart, {DEFAULT_POSITION}, {None, <<"GB">>})

SpecAlign == InitAlign /\ [][Run]_vars

\* the handlers in steps: set_sun is not atomic and its calls of self.sun may
\* raise; start-up on a minute boundary, commands that the environment accepts
NextSteps ==
    \/ Configure
    \/ OnStart
    \/ TimerFire
    \/ TimeTaskFireSteps
    \/ TimeTaskEnd("sched")
    \/ \E ok \in BOOLEAN : SyncFire(ok)
    \/ SyncEnd
    \/ Elapse
    \/ \E p \in Positions :
            SetPosition(FloatArg(p.latitude), FloatArg(p.longitude), "none")
    \/ SetPositionTickSteps
    \/ TimeTaskEnd("cmd")
    \/ \E th \in {"sched", "cmd"} : SetSunClear(th)
    \/ \E th \in {"sched", "cmd"}, fault \in SunFaults : SetSunLookup(th, fault)

InitSteps == InitFrom({0}, {DEFAULT_POSITION}, {<<"GB">>})

SpecSteps == InitSteps /\ [][NextSteps]_vars

\* the scheduling of the threads: timers fire when due, a handler that
\* started returns, time passes
FairSpec ==
    /\ Spec
    /\ WF_vars(Configure) /\ WF_vars(OnStart) /\ WF_vars(TimerFire)
    /\ WF_vars(TimeTaskFire) /\ WF_vars(TimeTaskEnd("sched"))
    /\ WF_vars(\E ok \in BOOLEAN : SyncFire(ok)) /\ WF_vars(SyncEnd)
    /\ WF_vars(SetPositionSun) /\ WF_vars(SetPositionTick) /\ WF_vars(TimeTaskEnd("cmd"))
    /\ WF_vars(Elapse)

\* ------------------------------------------------------------- claims
Threads == {"sched", "cmd"}

\* a step in which _on_start runs
StartsUp == phase = "configured" /\ phase' = "started"

\* a step in which _time_task starts on thread th
TickStarts(th) == pc[th] \in {"idle", "tick"} /\ pc'[th] \in {"save", "raised"}

\* a step in which _time_task returns on thread th
TickReturns(th) == pc[th] \in {"save", "raised"} /\ pc'[th] = "idle"

\* C1: at start-up the synchronization task is created and started if and
\* only if the clock is strictly earlier than the saved timestamp; with the
\* clock at or after it (the default 0 included) none is created
C1_StartupRecovery ==
    [][StartsUp =>
        IF now < config.timestamp
        THEN sync_time_task' # None /\ task'.sync = [state |-> "waiting", due |-> now]
        ELSE sync_time_task' = None /\ task'.sync.state = "none"]_vars

C1_Witness ==
    /\ phase = "started"
    /\ now < config.timestamp
    /\ sync_time_task # None
    /\ task.sync.state = "waiting"

SuppressionOnly ==
    [][sync_time_task # None => config'.timestamp = config.timestamp]_vars

\* C3: the first firing whose sync_time() returns true stops the task and
\* releases its handle; from then on the task never fires and is never
\* created again
C3_SelfTermination ==
    [][/\ (pc.sync = "sync_ok" /\ pc'.sync = "idle" /\ recovery.stopped = 0)
            => (sync_time_task' = None /\ task'.sync.state = "stopped")
       /\ (task.sync.state = "stopped" \/ recovery.stopped > 0)
            => /\ sync_time_task' = None
               /\ task'.sync.state = "stopped"
               /\ pc'.sync = "idle"
               /\ recovery'.created = recovery.created]_vars

C3_Witness ==
    /\ recovery.stopped = 1
    /\ sync_time_task = None
    /\ task.sync.state = "stopped"
    /\ now = MaxTime

LivenessWithTimezone ==
    (/\ recovery.stopped > 0 /\ phase = "started"
     /\ now + 2 * TIME_TASK_INTERVAL <= MaxTime
     /\ CanLocalize(timezone))
        ~> (recovery.wrote \/ phase = "stopped")

\* C5: the delay d of the Timer of _on_start at start time t has 0 <= d < 60
\* and (t + d) mod 60 = 0, with d = 0 on a minute boundary; the time task
\* first fires when the delay has elapsed and then every 60 s
C5_Alignment ==
    [][/\ StartsUp =>
            LET d == timer'.due - now
            IN  /\ timer'.state = "pending"
                /\ 0 <= d /\ d < 60
                /\ (now + d) % 60 = 0
                /\ (now % 60 = 0 => d = 0)
       /\ (timer.state = "pending" /\ timer'.state = "done")
            => (now = timer.due /\ task'.time = [state |-> "waiting", due |-> now])
       /\ TickStarts("sched") => (now % 60 = 0 /\ now = task.time.due)
       /\ (TickReturns("sched") /\ task'.time.state = "waiting")
            => task'.time.due = now + 60]_vars

C5_Witness ==
    /\ timer.state = "done"
    /\ pc.sched = "save"
    /\ sample.sched = 3 * 60

\* C6: the sunrise event, and the sunset event, is sent at most once a day
\* (the whole run is one day)
C6_OncePerDay == sent.sunrise <= 1 /\ sent.sunset <= 1

C9_SingleRecoveryTask ==
    [][/\ recovery'.created <= 1
       /\ recovery'.stopped <= recovery'.created
       /\ ~recovery'.missed
       /\ (sync_time_task' # None) = (recovery'.created = 1 /\ recovery'.stopped = 0)
       /\ (sync_time_task' # None) = (task'.sync.state \in {"waiting", "firing"})
       /\ (sync_time_task = None /\ sync_time_task' # None)
            => (StartsUp /\ now < config.timestamp)
       /\ (sync_time_task # None /\ sync_time_task' = None)
            => (pc.sync = "sync_ok" /\ pc'.sync = "idle" /\ recovery'.stopped = 1)]_vars

C9_Witness ==
    /\ recovery.created = 1
    /\ recovery.stopped = 1
    /\ sync_time_task = None
    /\ phase = "started"

\* C10: after _on_stop no firing of the time task starts
C10_NoTickAfterStop ==
    [][phase = "stopped" => ~TickStarts("sched")]_vars

\* C11: a firing of the synchronization task whose sync_time() returns false
\* changes neither the handle, the saved configuration nor the sun times, and
\* the task is scheduled again one period later; as long as no firing has
\* succeeded the task is active, whatever the number of failures
C11_FailureNoOp ==
    [][/\ (pc.sync = "sync_fail" /\ pc'.sync = "idle")
            => /\ sync_time_task' = sync_time_task
               /\ sync_time_task' # None
               /\ config' = config
               /\ sunrise' = sunrise /\ sunset' = sunset /\ suns' = suns
               /\ task'.sync = [state |-> "waiting", due |-> now + NTP_SYNC_INTERVAL]
       /\ (recovery'.created = 1 /\ recovery'.stopped = 0)
            => (sync_time_task' # None /\ task'.sync.state \in {"waiting", "firing"})]_vars

C11_Witness ==
    /\ now = MaxTime
    /\ pc.sync = "idle"
    /\ recovery.created = 1 /\ recovery.stopped = 0
    /\ sync_time_task # None
    /\ task.sync = [state |-> "waiting", due |-> MaxTime + NTP_SYNC_INTERVAL]

\* a step in which set_position ends by raising before it calls set_sun
SetPositionRaises == ncmd' = ncmd + 1 /\ pc'.cmd = "idle"

\* a step in which a set_position call ends
SetPositionEnds == pc'.cmd = "idle" /\ (ncmd' = ncmd + 1 \/ pc.cmd # "idle")

\* C13: a set_position call that raises leaves the saved position, timezone
\* and country as they were before the call
C13_NoCorruption ==
    [][SetPositionRaises
        => /\ config'.position = config.position
           /\ config'.timezone = config.timezone
           /\ config'.country = config.country]_vars

\* C14: when a set_position call that changed the saved position ends, by
\* returning or by raising, sunrise and sunset (and, for a position with sun
\* times, the timestamps get_sun reports) are those of the saved position
C14_SunTracksPosition ==
    [][(SetPositionEnds /\ (pc.cmd # "idle" \/ config'.position # config.position))
        => LET s == SetSun(config'.position, now, suns')
           IN  sunrise' = s.sunrise /\ sunset' = s.sunset /\ suns' = s.suns]_vars

StepOrderWhenFormatted ==
    [][\A th \in Threads :
        (TickStarts(th) /\ pc'[th] = "save")
            => /\ now_event'[th] = NowEventParams(FormatTime(now), suns)
               /\ sent'.sunrise = sent.sunrise
                    + (IF EdgeDue(FormatTime(now), sunrise) THEN 1 ELSE 0)
               /\ sent'.sunset = sent.sunset
                    + (IF EdgeDue(FormatTime(now), sunset) THEN 1 ELSE 0)]_vars

\* C18: a run of _time_task that took its sample while the synchronization
\* task was active does not save that sample
C18_NoUnsyncedCheckpoint ==
    [][\A th \in Threads :
        (TickReturns(th) /\ in_recovery[th])
            => config'.timestamp = config.timestamp]_vars

\* C19: a set_position call with a missing or non-float latitude or longitude
\* raises MissingParameter or InvalidParameter, and changes neither the saved
\* configuration, the sun times nor the timezone, and sends no event
C19_RejectsMalformed ==
    [][(ncmd' = ncmd + 1 /\ (call'.latitude # "float" \/ call'.longitude # "float"))
        => /\ raised' \in {"MissingParameter", "InvalidParameter"}
           /\ raised' = "MissingParameter"
                <=> (call'.latitude = "None"
                        \/ (call'.latitude = "float" /\ call'.longitude = "None"))
           /\ pc'.cmd = "idle"
           /\ UNCHANGED <<config, timezone, sunrise, sunset, suns, set_sun_calls,
                          sent, now_event, country_event>>]_vars

C19_Witness ==
    /\ ncmd = 1
    /\ call = [latitude |-> "float", longitude |-> "int"]
    /\ raised = "InvalidParameter"
    /\ pc.cmd = "idle"
    /\ phase = "started"
    /\ sunrise # None

\* C20: once _configure has run, self.timezone is a timezone object, and it
\* is the timezone of the saved 'timezone' field
C20_TimezoneUsable ==
    phase \in {"configured", "started", "stopped"}
        => (CanLocalize(timezone) /\ timezone[2] = config.timezone)

\* a step in which the set_sun call of thread th ends by raising
SetSunRaises(th) ==
    /\ pc[th] \in {"sun_lookup", "refresh_lookup"}
    /\ pc'[th] \in {"idle", "raised"}

\* a step in which _time_task starts on thread th, with set_sun in steps
TickStartsSteps(th) ==
    pc[th] \in {"idle", "tick"} /\ pc'[th] \in {"refresh", "save", "raised"}

\* C12: a set_sun call in which the sunset or sunrise computation raises
\* leaves sunrise, sunset and the reported timestamps as they were when the
\* call began
C12_StaleButSafe ==
    [][\A th \in Threads :
        SetSunRaises(th)
            => /\ sunrise' = sun_entry[th].sunrise
               /\ sunset' = sun_entry[th].sunset
               /\ suns' = sun_entry[th].suns]_vars

\* C15: no run of _time_task starts (and tests sunrise and sunset) while a
\* set_sun call of another thread has cleared sunrise and sunset and not yet
\* assigned them
C15_RecomputeExclusion ==
    [][\A th \in Threads :
        TickStartsSteps(th)
            => \A other \in Threads \ {th} :
                    pc[other] \notin {"sun_lookup", "refresh_lookup"}]_vars

\* C16: a run of _time_task that formatted its sample and ran with no
\* synchronization task active ends with the saved timestamp equal to its
\* sample, also when its update of the sun times failed
C16_CheckpointEveryTick ==
    [][\A th \in Threads :
        (/\ TickReturns(th)
         /\ CanLocalize(timezone)
         /\ sync_time_task = None /\ ~in_recovery[th])
            => config'.timestamp = sample[th]]_vars

\* a step in which a firing of the synchronization task starts
SyncStarts == pc.sync = "idle" /\ pc'.sync \in {"sync_ok", "sync_fail"}

\* C21: after _on_stop no firing of the synchronization task starts
C21_NoSyncAfterStop ==
    [][phase = "stopped" => ~SyncStarts]_vars

====
